---------------------------- MODULE Spec2Model ----------------------------
(* A model of the Activity Store of FriendTracker.py (SpotifyAnalyzer):   *)
(* thread-local SQLite connections, the with_db_retry decorator,          *)
(* create_user_table, store_activity, verify_database_structure and the   *)
(* run_collection_loop that feeds them.                                   *)
(*                                                                        *)
(* SQLite is modelled at statement granularity.  The committed database   *)
(* is db; the connection that holds the write lock (writer) has a private *)
(* image (pending) that becomes db on commit and is dropped when the      *)
(* connection is closed.  Python's sqlite3 opens a transaction implicitly *)
(* before INSERT/REPLACE and runs CREATE TABLE / CREATE INDEX in whatever *)
(* transaction state the connection is in (autocommit when none is open). *)
(* Any statement that needs the write lock, and any commit, may be        *)
(* answered "database is locked" by the engine.                           *)
EXTENDS Integers, Sequences, FiniteSets, TLC

\* ------------------------------------------------------------ bounds
\* calls the worker threads make, all together, and "database is locked"
\* answers of the engine, all together: two concurrent workers
MaxCalls == 2
MaxLocked == 2
\* the same for a single worker
MaxSeqCalls == 3
MaxSeqLocked == 3
\* stream tables deleted out of band
MaxDrops == 1
\* "database is locked" answers where a worker stores and reads back
MaxQueryLocked == 1
\* calls and "database is locked" answers while the database stays locked
MaxStallCalls == 1
MaxStallLocked == 6
\* the poll loop: calls of store_activity, "database is locked" answers
MaxLoopCalls == 2
MaxTickCalls == 2
MaxTickLocked == 1
MaxVerifyCalls == 2
MaxVerifyLocked == 1
MaxCloseCalls == 3
MaxCloseLocked == 1
MaxRangeCalls == 3
MaxRangeLocked == 1
MaxLoopLocked == 1
\* filter_active_friends(active_threshold_seconds=300)
active_threshold_seconds == 300
\* @retry(stop=stop_after_attempt(3)) on fetch_friend_activity
stop_after_attempt == 3

\* with_db_retry(max_attempts=3, delay=1)
max_attempts == 3
delay == 1

Threads == {1, 2}
\* values time.time() returns (wall clock, not monotonic)
Times == {1, 2}

\* ------------------------------------------------------------ strings
\* A URI is a sequence of characters; an alphanumeric word stands for one
\* alphanumeric character.
Alnum == {"s", "a", "b", "user", "listening", "activity"}

isalnum(str) == Len(str) > 0 /\ \A i \in 1..Len(str) : str[i] \in Alnum

Contains(str, c) == \E i \in 1..Len(str) : str[i] = c

\* str.split(c)[-1]
LastComponent(str, c) ==
    IF Contains(str, c)
    THEN LET k == CHOOSE i \in 1..Len(str) :
                      str[i] = c /\ \A j \in (i+1)..Len(str) : str[j] # c
         IN  SubSeq(str, k + 1, Len(str))
    ELSE str

\* ''.join(c if c.isalnum() else '_' for c in username)
Sanitize(str) == [i \in 1..Len(str) |-> IF str[i] \in Alnum THEN str[i] ELSE "_"]

\* str.replace('_', '')
StripUnderscores(str) == SelectSeq(str, LAMBDA c : c # "_")

TableNameOf(user_uri) ==
    <<"user", "_">> \o Sanitize(LastComponent(user_uri, ":"))
                    \o <<"_", "listening", "_", "activity">>

\* get_user_table_name raises ValueError when the validation fails
NameIsValid(user_uri) == isalnum(StripUnderscores(TableNameOf(user_uri)))

get_user_table_name(user_uri) == TableNameOf(user_uri)

\* ------------------------------------------------------------ inputs
U_b    == <<"s", ":", "b">>
U_und  == <<"s", ":", "a", "_">>
U_dot  == <<"s", ":", "a", ".">>
U_none == << >>
U_bare == <<"a">>
U_colon == <<"s", ":">>

Listeners == {U_b, U_und, U_dot, U_colon}

Activity(hu, u, un, ht, tu, tnm, hts, ts) ==
    [hasUser |-> hu, uri |-> u, uname |-> un,
     hasTrack |-> ht, turi |-> tu, tname |-> tnm,
     hasTs |-> hts, ts |-> ts]

\* candidate events: two sightings of one listener and track, a second and
\* a third listener, and candidates that lack one part or another
A_b1     == Activity(TRUE, U_b, "n1", TRUE, "T1", "Song A", TRUE, 1)
A_b2     == Activity(TRUE, U_b, "n2", TRUE, "T1", "Song B", TRUE, 2)
A_und    == Activity(TRUE, U_und, "n1", TRUE, "T1", "Song A", TRUE, 1)
A_dot    == Activity(TRUE, U_dot, "n1", TRUE, "T1", "Song A", TRUE, 2)
A_nouser == Activity(FALSE, U_none, "Unknown", TRUE, "T1", "Song A", TRUE, 1)
A_nouri  == Activity(TRUE, U_none, "n1", TRUE, "T1", "Song A", TRUE, 1)
A_bare   == Activity(TRUE, U_bare, "n1", TRUE, "T1", "Song A", TRUE, 1)
A_notrk  == Activity(TRUE, U_b, "n1", FALSE, "", "Unknown", TRUE, 1)
A_noturi == Activity(TRUE, U_b, "n1", TRUE, "", "Song A", TRUE, 1)
A_nots   == Activity(TRUE, U_b, "n1", TRUE, "T1", "Song A", FALSE, 0)

Activities ==
    {A_b1, A_b2, A_und, A_dot, A_nouser, A_nouri, A_bare, A_notrk,
     A_noturi, A_nots}

NoActivity == Activity(FALSE, U_none, "", FALSE, "", "", FALSE, 0)

\* A call a worker may make: store_activity(act) or create_user_table(uri)
StoreOp(a)  == [kind |-> "store", act |-> a, uri |-> a.uri]
CreateOp(u) == [kind |-> "create", act |-> NoActivity, uri |-> u]

AllOps == {StoreOp(a) : a \in Activities} \cup {CreateOp(u) : u \in Listeners}

\* What two concurrent workers draw their calls from in one run: the same
\* listener, two listeners, two listeners whose names sanitize alike, and
\* a listener with candidates that fail after validation
Universes == {"same", "two", "alike", "failing"}

OpsOf(universe) ==
    CASE universe = "same"    -> {StoreOp(A_b1), StoreOp(A_b2), CreateOp(U_b)}
      [] universe = "two"     -> {StoreOp(A_b1), StoreOp(A_und), CreateOp(U_und)}
      [] universe = "alike"   -> {StoreOp(A_und), StoreOp(A_dot), CreateOp(U_dot)}
      [] universe = "failing" -> {StoreOp(A_b1), StoreOp(A_nots), StoreOp(A_noturi)}
      [] universe = "query"   -> {StoreOp(A_b1), StoreOp(A_b2), StoreOp(A_und),
                                  StoreOp(A_dot), CreateOp(U_b)}
      [] universe = "range"   -> {StoreOp(A_b1), StoreOp(A_b2), CreateOp(U_b)}
      [] universe = "stall"   -> {StoreOp(A_b1), CreateOp(U_b)}
      [] universe = "repair"  -> {StoreOp(A_b1), StoreOp(A_und), StoreOp(A_nots),
                                  CreateOp(U_dot)}
      [] OTHER                -> AllOps

TableNames == { get_user_table_name(u) : u \in Listeners }

\* ------------------------------------------------------------ database
CoreTables == {"users", "tracks", "user_tables"}

\* init_database: the three core tables, empty; no stream table.
EmptyDb ==
    [core   |-> CoreTables,
     users  |-> {},
     tracks |-> {},
     reg    |-> {},
     tables |-> {},
     rows   |-> [tn \in TableNames |-> << >>]]

\* INSERT OR REPLACE INTO users / tracks (uri is the PRIMARY KEY)
InsertOnly(rows, row) == rows \cup {row}

InsertOrReplace(rows, row) == {r \in rows : r.uri # row.uri} \cup {row}

\* INSERT OR REPLACE INTO user_tables (user_uri is the PRIMARY KEY)
InsertOnlyReg(reg, row) == reg \cup {row}

InsertOrReplaceReg(reg, row) ==
    {r \in reg : r.user_uri # row.user_uri} \cup {row}

\* CREATE TABLE IF NOT EXISTS <table_name>
CreateTableIfNotExists(img, tn) ==
    IF tn \in img.tables THEN img
    ELSE [img EXCEPT !.tables = @ \cup {tn}, !.rows[tn] = << >>]

\* id INTEGER PRIMARY KEY AUTOINCREMENT
NextId(stream) ==
    IF stream = << >> THEN 1
    ELSE 1 + (CHOOSE m \in {stream[i].id : i \in 1..Len(stream)} :
                  \A i \in 1..Len(stream) : stream[i].id <= m)

\* INSERT INTO <table_name> (timestamp, track_uri, ...)
ReplaceEventAtTimestamp(img, tn, ts, turi) ==
    LET Other(e) == e.timestamp # ts IN
    [img EXCEPT !.rows[tn] =
        Append(SelectSeq(@, Other), [id |-> ts, timestamp |-> ts, track_uri |-> turi])]

InsertEvent(img, tn, ts, turi) ==
    [img EXCEPT !.rows[tn] =
        Append(@, [id |-> NextId(@), timestamp |-> ts, track_uri |-> turi])]

VARIABLES
    db,        \* the committed database
    pending,   \* the uncommitted image of the connection holding the write lock
    writer,    \* the thread whose connection holds the write lock, or 0
    th,        \* per thread: thread_local and the frames of the running call
    ncalls,    \* calls made so far
    nlocked,   \* "database is locked" answers given so far
    run,       \* what this run is made of: the workers, the calls they draw
               \* from, the bounds on calls, on locked answers and on
               \* stream tables deleted out of band
    hist,      \* per worker, the storable candidates it has passed to
               \* store_activity, in order (kept in runs of two workers)
    loop       \* run_collection_loop: where it is, and its locals

vars == <<db, pending, writer, th, ncalls, nlocked, run, hist, loop>>


\* ------------------------------------------------------------ threads
NoTxn == EmptyDb

\* The state of one thread: thread_local.connection (conn) and the frames
\* of the call it is running.
\*   act, att    store_activity: its argument, the wrapper's attempt index
\*   sconn       store_activity: the connection object bound to the local
\*               name conn (line 238) is still open
\*   uri, caller, catt   create_user_table: argument, calling frame,
\*               the wrapper's attempt index
\*   opened      connections the thread has opened and not closed
\*   vconn       verify_database_structure: the connection bound by the
\*               with statement (line 437), and its cursor, are still open
\*   vstart, vtodo, vmissing   verify_database_structure: the registry rows
\*               fetched at line 454, those still to visit, the tables
\*               found missing
\*   prev        verify_database_structure: how the thread's previous call
\*               ended
\*   slept       seconds the running top-level call has spent in the
\*               time.sleep of with_db_retry (line 84)
\*   ncreate     how many times the running top-level call has come to
\*               the CREATE TABLE statement of create_user_table
\*   got         what the thread's last get_user_activity call returned,
\*               and for which listener and time bounds
\*   result      how the last top-level call of the thread ended
\* The locals of a frame are reset when the frame is left.
IdleThread ==
    [pc |-> "idle", conn |-> FALSE, opened |-> 0,
     act |-> NoActivity, att |-> 0, sconn |-> FALSE,
     uri |-> U_none, caller |-> "top", catt |-> 0,
     vconn |-> FALSE, vstart |-> {}, vtodo |-> {}, vmissing |-> {},
     got |-> [user_uri |-> U_none, frame |-> << >>,
              start_time |-> [given |-> FALSE, value |-> 0],
              end_time |-> [given |-> FALSE, value |-> 0]],
     ncreate |-> 0, slept |-> 0, prev |-> "none",
     result |-> "none"]

\* what the connection of thread t reads
View(t) == IF writer = t THEN pending ELSE db

\* get_db_connection: open a connection unless the thread has one
connect_always(r) == [r EXCEPT !.conn = TRUE, !.opened = @ + 1]

get_db_connection(r) ==
    IF r.conn THEN r ELSE [r EXCEPT !.conn = TRUE, !.opened = @ + 1]

\* close_db_connection: close and forget the thread's connection; every
\* name still bound to that connection object now names a closed one
forget_connection(r) ==
    [r EXCEPT !.conn = FALSE, !.sconn = FALSE, !.vconn = FALSE]

close_db_connection(r) ==
    IF r.conn THEN [r EXCEPT !.conn = FALSE, !.sconn = FALSE, !.vconn = FALSE,
                             !.opened = @ - 1]
    ELSE r

KeepsTransaction(t) == [writer |-> writer, pending |-> pending]

\* closing a connection rolls its open transaction back
AfterClose(t) ==
    IF th[t].conn /\ writer = t
    THEN [writer |-> 0, pending |-> NoTxn]
    ELSE [writer |-> writer, pending |-> pending]

WriterAfterClose(t) == AfterClose(t).writer
PendingAfterClose(t) == AfterClose(t).pending

\* wait_time = delay * (2 ** attempt)
Pow2(n) == IF n = 0 THEN 1 ELSE IF n = 1 THEN 2 ELSE IF n = 2 THEN 4 ELSE 8
wait_time(attempt) == delay * Pow2(attempt)

\* "database is locked" in str(e) for an sqlite3.OperationalError
IsAnyError(err) == TRUE

IsLockedError(err) == err = "locked"

\* ---- how a frame hands control back to the frame that called it
\* store_activity returns or raises to its caller
StoreEnds(r, res) ==
    [IdleThread EXCEPT !.conn = r.conn, !.opened = r.opened, !.result = res]

\* an exception leaves the body of store_activity (lines 270-279 re-raise):
\* the wrapper retries a locked error and lets any other through
StoreBodyRaises(r, err) ==
    IF IsLockedError(err) THEN [r EXCEPT !.pc = "s_backoff"]
    ELSE StoreEnds(r, err)

\* create_user_table returns table_name to its caller
CreateReturns(r) ==
    CASE r.caller = "store"  -> [r EXCEPT !.pc = "s_write"]
      [] r.caller = "verify" -> [r EXCEPT !.pc = "v_loop"]
      [] OTHER              -> [IdleThread EXCEPT !.conn = r.conn, !.opened = r.opened, !.result = "ok"]

\* an exception leaves the wrapper of create_user_table
CreateEnds(r, err) ==
    CASE r.caller = "store"  -> StoreBodyRaises(r, err)
      [] r.caller = "verify" -> [r EXCEPT !.pc = "v_raise", !.result = err]
      [] OTHER              -> [IdleThread EXCEPT !.conn = r.conn, !.opened = r.opened, !.result = err]

\* an exception leaves the body of create_user_table (lines 185-187 re-raise)
CreateBodyRaises(r, err) ==
    IF IsLockedError(err) THEN [r EXCEPT !.pc = "c_backoff"]
    ELSE CreateEnds(r, err)

\* ------------------------------------------------------------ the engine
\* The statements that must take the write lock: CREATE TABLE / CREATE
\* INDEX outside a transaction, and the first INSERT of a transaction.
NeedsLock(t) ==
    /\ writer # t
    /\ \/ th[t].pc \in {"c_create", "c_insert", "v_init"}
       \/ th[t].pc = "s_write" /\ th[t].sconn

\* a commit; the one that ends verify_database_structure has something to
\* commit only when a transaction is open
AtCommit(t) ==
    \/ th[t].pc \in {"c_commit", "s_commit"}
    \/ th[t].pc = "v_exit" /\ th[t].vconn /\ writer = t

\* sqlite3.OperationalError("database is locked"): another connection (of
\* another thread or process) holds a lock this statement or commit needs.
\* A statement may fail this way whoever holds the lock.
EngineLocked(t) ==
    LET r == th[t] IN
    /\ NeedsLock(t) \/ AtCommit(t)
    /\ nlocked < run.maxLocked
    /\ nlocked' = nlocked + 1
    /\ th' = [th EXCEPT ![t] =
                CASE r.pc \in {"c_create", "c_insert", "c_commit"}
                        -> CreateBodyRaises(r, "locked")
                  [] r.pc = "v_init"
                        -> [r EXCEPT !.pc = "v_raise", !.result = "locked"]
                  [] r.pc = "v_exit"
                        -> [IdleThread EXCEPT !.conn = r.conn, !.opened = r.opened, !.result = "locked"]
                  [] OTHER
                        -> StoreBodyRaises(r, "locked")]
    /\ UNCHANGED <<db, pending, writer, ncalls, run, hist, loop>>

\* ------------------------------------------------------------ create_user_table
\* lines 143-154: derive the name, get the connection, look the table up
CreateSelect(t) ==
    LET r == th[t] IN
    /\ r.pc = "c_select"
    /\ IF ~NameIsValid(r.uri)
       THEN th' = [th EXCEPT ![t] = CreateBodyRaises(r, "value")]
       ELSE LET c == get_db_connection(r) IN
            IF get_user_table_name(r.uri) \in View(t).tables
            THEN th' = [th EXCEPT ![t] = CreateReturns(c)]
            ELSE th' = [th EXCEPT ![t] = [c EXCEPT !.pc = "c_create",
                                                   !.ncreate = @ + 1]]
    /\ UNCHANGED <<db, pending, writer>>

\* lines 157-167: CREATE TABLE IF NOT EXISTS, inside the open transaction
\* if the connection has one, committed at once otherwise
CreateTable(t) ==
    LET tn == get_user_table_name(th[t].uri) IN
    /\ th[t].pc = "c_create"
    /\ \/ /\ writer = t
          /\ pending' = CreateTableIfNotExists(pending, tn)
          /\ UNCHANGED <<db, writer>>
       \/ /\ writer = 0
          /\ db' = CreateTableIfNotExists(db, tn)
          /\ UNCHANGED <<pending, writer>>
    /\ th' = [th EXCEPT ![t].pc = "c_insert"]

\* lines 170-179: CREATE INDEX IF NOT EXISTS, then INSERT OR REPLACE INTO
\* user_tables, which opens a transaction if none is open.  The index holds
\* no data of its own: a locked CREATE INDEX leaves what a locked INSERT
\* leaves, so the two statements are one step.
RegistryRow(user_uri, now) ==
    [user_uri |-> user_uri, table_name |-> get_user_table_name(user_uri),
     created_at |-> now]

CreateInsert(t) ==
    /\ th[t].pc = "c_insert"
    /\ writer \in {0, t}
    /\ \E now \in Times :
          pending' = [View(t) EXCEPT
                         !.reg = InsertOrReplaceReg(@, RegistryRow(th[t].uri, now))]
    /\ writer' = t
    /\ th' = [th EXCEPT ![t].pc = "c_commit"]
    /\ UNCHANGED db

\* lines 181-183: conn.commit(); return table_name
CreateCommit(t) ==
    /\ th[t].pc = "c_commit"
    /\ db' = View(t)
    /\ writer' = IF writer = t THEN 0 ELSE writer
    /\ pending' = IF writer = t THEN NoTxn ELSE pending
    /\ th' = [th EXCEPT ![t] = CreateReturns(th[t])]

\* with_db_retry, lines 79-89, around create_user_table: sleep, close the
\* connection, try again; after max_attempts raise the last locked error
CreateBackoff(t) ==
    LET r == [close_db_connection(th[t]) EXCEPT
                 !.slept = @ + wait_time(th[t].catt)] IN
    /\ th[t].pc = "c_backoff"
    /\ writer' = WriterAfterClose(t)
    /\ pending' = PendingAfterClose(t)
    /\ th' = [th EXCEPT ![t] =
                IF r.catt + 1 < max_attempts
                THEN [r EXCEPT !.catt = @ + 1, !.pc = "c_select"]
                ELSE CreateEnds([r EXCEPT !.catt = @ + 1], "locked")]
    /\ UNCHANGED db

\* ------------------------------------------------------------ store_activity
\* lines 208-210 and 219-221: the candidate is dropped
Rejected(a) ==
    \/ ~a.hasUser
    \/ ~a.hasTrack
    \/ a.uri = << >>
    \/ ~Contains(a.uri, ":")

\* lines 192-243: validate, bind conn, call create_user_table
StoreBegin(t) ==
    LET r == th[t] IN
    /\ r.pc = "s_begin"
    /\ th' = [th EXCEPT ![t] =
                IF Rejected(r.act) THEN StoreEnds(r, "rejected")
                ELSE [get_db_connection(r) EXCEPT
                         !.sconn = TRUE, !.uri = r.act.uri,
                         !.caller = "store", !.catt = 0, !.pc = "c_select"]]
    /\ UNCHANGED <<db, pending, writer>>

\* lines 247-266: conn.cursor() on the connection bound at line 238, then
\* INSERT OR REPLACE INTO users (which opens the transaction and takes the
\* write lock), INSERT OR REPLACE INTO tracks and INSERT INTO <table_name>.
\* The three statements run in one transaction of this connection: no
\* other connection sees anything between them but the lock.
StoredDimensions(img, a) ==
    [img EXCEPT !.users = InsertOrReplace(@, [uri |-> a.uri, name |-> a.uname]),
                !.tracks = InsertOrReplace(@, [uri |-> a.turi, name |-> a.tname])]

StoreWrite(t) ==
    LET r == th[t]
        tn == get_user_table_name(r.act.uri)
        dims == StoredDimensions(View(t), r.act)
    IN
    /\ r.pc = "s_write"
    /\ \/ \* sqlite3.ProgrammingError: Cannot operate on a closed database
          /\ ~r.sconn
          /\ th' = [th EXCEPT ![t] = StoreBodyRaises(r, "closed")]
          /\ UNCHANGED <<db, pending, writer>>
       \/ /\ r.sconn
          /\ writer \in {0, t}
          /\ writer' = t
          /\ UNCHANGED db
          /\ IF tn \notin dims.tables
             THEN \* sqlite3.OperationalError: no such table
                  /\ pending' = dims
                  /\ th' = [th EXCEPT ![t] = StoreBodyRaises(r, "no such table")]
             ELSE IF ~r.act.hasTs
             THEN \* sqlite3.IntegrityError: timestamp is NOT NULL
                  /\ pending' = dims
                  /\ th' = [th EXCEPT ![t] = StoreBodyRaises(r, "integrity")]
             ELSE /\ pending' = InsertEvent(dims, tn, r.act.ts, r.act.turi)
                  /\ th' = [th EXCEPT ![t].pc = "s_commit"]

\* line 268: conn.commit()
StoreCommit(t) ==
    /\ th[t].pc = "s_commit"
    /\ db' = pending
    /\ writer' = 0
    /\ pending' = NoTxn
    /\ th' = [th EXCEPT ![t] = StoreEnds(th[t], "ok")]

\* with_db_retry, lines 79-89, around store_activity
StoreBackoff(t) ==
    LET r == [close_db_connection(th[t]) EXCEPT
                 !.slept = @ + wait_time(th[t].att)] IN
    /\ th[t].pc = "s_backoff"
    /\ writer' = WriterAfterClose(t)
    /\ pending' = PendingAfterClose(t)
    /\ th' = [th EXCEPT ![t] =
                IF r.att + 1 < max_attempts
                THEN [r EXCEPT !.att = @ + 1, !.pc = "s_begin"]
                ELSE StoreEnds([r EXCEPT !.att = @ + 1], "locked")]
    /\ UNCHANGED db

\* ------------------------------------------------------------ verify_database_structure
\* if not cursor.fetchone(), after SELECT name FROM sqlite_master WHERE name=?
TableMissingNever(img, table_name) == FALSE

TableMissing(img, table_name) == table_name \notin img.tables

\* init_database, lines 95-119: CREATE TABLE IF NOT EXISTS users, tracks,
\* user_tables
init_nothing(img) == img

init_database(img) == [img EXCEPT !.core = CoreTables]

\* lines 437-454: bind the connection, find the three core tables; with
\* all three there, fetch the registry rows
VerifyBegin(t) ==
    /\ th[t].pc = "v_begin"
    /\ th' = [th EXCEPT ![t] =
                IF View(t).core = CoreTables
                THEN [get_db_connection(@) EXCEPT
                         !.vconn = TRUE, !.vstart = View(t).reg,
                         !.vtodo = View(t).reg, !.pc = "v_loop"]
                ELSE [get_db_connection(@) EXCEPT
                         !.vconn = TRUE, !.pc = "v_init"]]
    /\ UNCHANGED <<db, pending, writer>>

\* lines 449-454: init_database() on the same connection (executescript
\* commits what is pending, runs the three statements, and line 120
\* commits), then fetch the registry rows; the SELECT raises
\* sqlite3.OperationalError if there is still no user_tables
VerifyInit(t) ==
    LET r == th[t]
        img == init_database(View(t))
    IN
    /\ r.pc = "v_init"
    /\ writer \in {0, t}
    /\ db' = img
    /\ writer' = 0
    /\ pending' = NoTxn
    /\ th' = [th EXCEPT ![t] =
                IF "user_tables" \in img.core
                THEN [r EXCEPT !.vstart = img.reg, !.vtodo = img.reg,
                               !.pc = "v_loop"]
                ELSE [r EXCEPT !.pc = "v_raise", !.result = "no such table"]]

\* lines 454-462: for the next fetched row, look its table up with the
\* cursor of line 440 and call create_user_table(user_uri) if it is missing;
\* after the last row leave the with statement
VerifyLoop(t) ==
    LET r == th[t] IN
    /\ r.pc = "v_loop"
    /\ \/ /\ r.vtodo = {}
          /\ th' = [th EXCEPT ![t].pc = "v_exit"]
       \/ \* sqlite3.ProgrammingError: Cannot operate on a closed database
          /\ r.vtodo # {}
          /\ ~r.vconn
          /\ th' = [th EXCEPT ![t] = [r EXCEPT !.pc = "v_raise", !.result = "closed"]]
       \/ /\ r.vconn
          /\ \E row \in r.vtodo :
                th' = [th EXCEPT ![t] =
                         IF TableMissing(View(t), row.table_name)
                         THEN [r EXCEPT !.vtodo = @ \ {row},
                                        !.vmissing = @ \cup {row.table_name},
                                        !.uri = row.user_uri, !.caller = "verify",
                                        !.catt = 0, !.pc = "c_select"]
                         ELSE [r EXCEPT !.vtodo = @ \ {row}]]
    /\ UNCHANGED <<db, pending, writer>>

\* line 437, leaving the with statement normally: conn.commit()
VerifyExit(t) ==
    LET r == th[t] IN
    /\ r.pc = "v_exit"
    /\ IF ~r.vconn
       THEN /\ th' = [th EXCEPT ![t] =
                        [IdleThread EXCEPT !.conn = r.conn, !.opened = r.opened, !.result = "closed"]]
            /\ UNCHANGED <<db, pending, writer>>
       ELSE /\ th' = [th EXCEPT ![t] =
                        [IdleThread EXCEPT !.conn = r.conn, !.opened = r.opened, !.result = "ok"]]
            /\ db' = View(t)
            /\ writer' = IF writer = t THEN 0 ELSE writer
            /\ pending' = IF writer = t THEN NoTxn ELSE pending

\* lines 464-466 and 437, leaving the with statement by an exception:
\* conn.rollback(), which itself raises on a closed connection
VerifyRaise(t) ==
    LET r == th[t] IN
    /\ r.pc = "v_raise"
    /\ th' = [th EXCEPT ![t] =
                [IdleThread EXCEPT !.conn = r.conn, !.opened = r.opened,
                    !.result = IF r.vconn THEN r.result ELSE "closed"]]
    /\ writer' = IF r.vconn /\ writer = t THEN 0 ELSE writer
    /\ pending' = IF r.vconn /\ writer = t THEN NoTxn ELSE pending
    /\ UNCHANGED db

\* ------------------------------------------------------------ callers
\* a candidate that passes validation and carries a timestamp
Storable(a) == ~Rejected(a) /\ a.hasTs

\* a worker calls store_activity(activity_data)
CallStore(t) ==
    /\ t \in run.workers
    /\ th[t].pc = "idle"
    /\ ncalls < run.maxCalls
    /\ ncalls' = ncalls + 1
    /\ \E o \in OpsOf(run.ops) :
          /\ o.kind = "store"
          /\ th' = [th EXCEPT ![t] = [IdleThread EXCEPT !.conn = th[t].conn, !.opened = th[t].opened,
                                         !.act = o.act, !.pc = "s_begin"]]
          /\ hist' = IF run.track /\ Storable(o.act)
                     THEN [hist EXCEPT ![t] = Append(@, o.act)]
                     ELSE hist
    /\ UNCHANGED <<db, pending, writer, nlocked, run, loop>>

\* a worker calls create_user_table(user_uri)
CallCreate(t) ==
    /\ t \in run.workers
    /\ th[t].pc = "idle"
    /\ ncalls < run.maxCalls
    /\ ncalls' = ncalls + 1
    /\ \E o \in OpsOf(run.ops) :
          /\ o.kind = "create"
          /\ th' = [th EXCEPT ![t] = [IdleThread EXCEPT !.conn = th[t].conn, !.opened = th[t].opened,
                                         !.uri = o.uri, !.pc = "c_select"]]
    /\ UNCHANGED <<db, pending, writer, nlocked, run, hist, loop>>

\* ------------------------------------------------------------ get_user_activity
\* the greatest la.timestamp of a non-empty list of rows
MaxTimestamp(rows) ==
    CHOOSE m \in {rows[i].timestamp : i \in 1..Len(rows)} :
       \A i \in 1..Len(rows) : rows[i].timestamp <= m

\* ORDER BY la.timestamp DESC (rows of equal timestamp in table order)
RECURSIVE OrderByTimestampDesc(_)
OrderByTimestampDesc(rows) ==
    IF rows = << >> THEN << >>
    ELSE LET m == MaxTimestamp(rows) IN
         SelectSeq(rows, LAMBDA e : e.timestamp = m)
            \o OrderByTimestampDesc(SelectSeq(rows, LAMBDA e : e.timestamp # m))

\* FROM <table_name> la JOIN tracks t ON la.track_uri = t.uri: the events
\* that have a tracks row, each with the name of that row
JoinTracks(img, table_name) ==
    LET joined == SelectSeq(img.rows[table_name],
                            LAMBDA e : \E k \in img.tracks : k.uri = e.track_uri)
    IN [i \in 1..Len(joined) |->
          [timestamp |-> joined[i].timestamp,
           track_name |-> (CHOOSE k \in img.tracks :
                              k.uri = joined[i].track_uri).name]]

\* start_time and end_time: None, or an int
NoTime == [given |-> FALSE, value |-> 0]

Time(v) == [given |-> TRUE, value |-> v]

\* the time bounds a worker passes: none in runs that only read whole
\* streams, None or an int either side in runs that read ranges
TimeArgs(universe) ==
    IF universe = "range" THEN {NoTime, Time(0), Time(1), Time(2)} ELSE {NoTime}

\* if start_time: / if end_time: (lines 298 and 301)
Truthy(arg) == arg.given /\ arg.value # 0

\* WHERE 1=1 [AND la.timestamp >= ?] [AND la.timestamp <= ?]
Where(rows, start_time, end_time) ==
    LET Selected(e) ==
           /\ Truthy(start_time) => e.timestamp >= start_time.value
           /\ Truthy(end_time) => e.timestamp <= end_time.value
    IN SelectSeq(rows, Selected)

\* lines 284-308
SelectUserActivity(img, user_uri, start_time, end_time) ==
    OrderByTimestampDesc(
        Where(JoinTracks(img, get_user_table_name(user_uri)), start_time, end_time))

\* a worker calls get_user_activity(user_uri, start_time, end_time): one SELECT, and the with
\* statement of line 307 commits on the way out or, when the table does not
\* exist, rolls back and lets the error through
get_user_activity(t) ==
    /\ t \in run.workers
    /\ run.ops \in {"query", "range"}
    /\ th[t].pc = "idle"
    /\ ncalls < run.maxCalls
    /\ ncalls' = ncalls + 1
    /\ \E user_uri \in {U_b, U_und, U_dot},
          start_time \in TimeArgs(run.ops), end_time \in TimeArgs(run.ops) :
          LET r == get_db_connection(th[t])
              found == get_user_table_name(user_uri) \in View(t).tables
          IN
          /\ th' = [th EXCEPT ![t] =
                      [IdleThread EXCEPT
                         !.conn = r.conn, !.opened = r.opened,
                         !.result = IF found THEN "queried" ELSE "no such table",
                         !.got = [user_uri |-> user_uri,
                                  start_time |-> start_time,
                                  end_time |-> end_time,
                                  frame |-> IF found
                                            THEN SelectUserActivity(View(t), user_uri,
                                                                    start_time, end_time)
                                            ELSE << >>]]]
          /\ db' = IF found THEN View(t) ELSE db
    /\ writer' = IF writer = t THEN 0 ELSE writer
    /\ pending' = IF writer = t THEN NoTxn ELSE pending
    /\ UNCHANGED <<nlocked, run, hist, loop>>

\* a worker calls verify_database_structure()
CallVerify(t) ==
    /\ t \in run.workers
    /\ th[t].pc = "idle"
    /\ ncalls < run.maxCalls
    /\ ncalls' = ncalls + 1
    /\ th' = [th EXCEPT ![t] = [IdleThread EXCEPT !.conn = th[t].conn, !.opened = th[t].opened,
                                   !.prev = th[t].result, !.pc = "v_begin"]]
    /\ UNCHANGED <<db, pending, writer, nlocked, run, hist, loop>>

\* a worker calls close_db_connection()
CallClose(t) ==
    /\ t \in run.workers
    /\ th[t].pc = "idle"
    /\ ncalls < run.maxCalls
    /\ ncalls' = ncalls + 1
    /\ th' = [th EXCEPT ![t] = [IdleThread EXCEPT !.conn = th[t].conn, !.opened = th[t].opened,
                                   !.pc = "x_close"]]
    /\ UNCHANGED <<db, pending, writer, nlocked, run, hist, loop>>

\* lines 66-68: close the connection if the thread has one, and return
CloseReturns(t) ==
    /\ th[t].pc = "x_close"
    /\ th' = [th EXCEPT ![t] = [close_db_connection(@) EXCEPT
                                   !.pc = "idle", !.result = "ok"]]
    /\ writer' = WriterAfterClose(t)
    /\ pending' = PendingAfterClose(t)
    /\ UNCHANGED <<db, ncalls, nlocked, run, hist, loop>>

\* Out-of-band corruption: something other than the store deletes a stream
\* table (and with it its sqlite_sequence row) between two calls.
DropStream ==
    /\ run.maxDrops > 0
    /\ \A t \in Threads : th[t].pc = "idle"
    /\ writer = 0
    /\ \E tn \in db.tables :
          db' = [db EXCEPT !.tables = @ \ {tn}, !.rows[tn] = << >>]
    /\ run' = [run EXCEPT !.maxDrops = @ - 1]
    /\ UNCHANGED <<pending, writer, th, ncalls, nlocked, hist, loop>>

\* a store as the constructor leaves it (lines 40-47), no call made yet
Fresh ==
    /\ db = EmptyDb
    /\ pending = NoTxn
    /\ writer = 0
    /\ th = [t \in Threads |-> IdleThread]
    /\ ncalls = 0
    /\ nlocked = 0
    /\ hist = [t \in Threads |-> << >>]

\* no poll loop in the run
NoLoop ==
    [pc |-> "off", batch |-> << >>, i |-> 0, tries |-> 0, failed |-> "none",
     stop |-> FALSE, data |-> << >>, now |-> 0]

\* two workers
Init ==
    /\ Fresh
    /\ loop = NoLoop
    /\ \E u \in Universes :
          run = [workers |-> Threads, ops |-> u, track |-> TRUE,
                 maxCalls |-> MaxCalls, maxLocked |-> MaxLocked,
                 maxDrops |-> 0]

\* one worker
InitSeq ==
    /\ Fresh
    /\ loop = NoLoop
    /\ run = [workers |-> {1}, ops |-> "all", track |-> FALSE,
              maxCalls |-> MaxSeqCalls, maxLocked |-> MaxSeqLocked,
              maxDrops |-> 0]

\* one worker and a database that stays locked for long
InitStall ==
    /\ Fresh
    /\ loop = NoLoop
    /\ run = [workers |-> {1}, ops |-> "stall", track |-> FALSE,
              maxCalls |-> MaxStallCalls, maxLocked |-> MaxStallLocked,
              maxDrops |-> 0]

\* one worker that stores and reads back
InitQuery ==
    /\ Fresh
    /\ loop = NoLoop
    /\ run = [workers |-> {1}, ops |-> "query", track |-> TRUE,
              maxCalls |-> MaxSeqCalls, maxLocked |-> MaxQueryLocked,
              maxDrops |-> 0]

\* one worker that stores two events of one listener and reads ranges
InitRange ==
    /\ Fresh
    /\ loop = NoLoop
    /\ run = [workers |-> {1}, ops |-> "range", track |-> FALSE,
              maxCalls |-> MaxRangeCalls, maxLocked |-> MaxRangeLocked,
              maxDrops |-> 0]

\* one worker, and a store that loses stream tables out of band
InitRepair ==
    /\ Fresh
    /\ loop = NoLoop
    /\ run = [workers |-> {1}, ops |-> "repair", track |-> FALSE,
              maxCalls |-> MaxSeqCalls, maxLocked |-> MaxSeqLocked,
              maxDrops |-> MaxDrops]

\* Stores verify_database_structure may find: any of the core tables
\* gone with its rows, listeners registered or not, their stream tables
\* there or gone, empty or holding an event.
StoreWith(core, registered, tables, filled) ==
    [core   |-> core,
     users  |-> IF "users" \in core
                THEN {[uri |-> u, name |-> "n1"] :
                         u \in {v \in {U_b, U_und} : get_user_table_name(v) \in filled}}
                ELSE {},
     tracks |-> IF "tracks" \in core /\ filled # {}
                THEN {[uri |-> "T1", name |-> "Song A"]} ELSE {},
     reg    |-> IF "user_tables" \in core
                THEN {RegistryRow(u, 1) : u \in registered} ELSE {},
     tables |-> tables,
     rows   |-> [tn \in TableNames |->
                   IF tn \in filled
                   THEN <<[id |-> 1, timestamp |-> 1, track_uri |-> "T1"]>>
                   ELSE << >>]]

Stores ==
    {StoreWith(core, registered, tables, filled) :
        core \in SUBSET CoreTables,
        registered \in SUBSET {U_b, U_und},
        tables \in SUBSET {get_user_table_name(U_b), get_user_table_name(U_und)},
        filled \in SUBSET {get_user_table_name(U_b), get_user_table_name(U_und)}}

\* one thread that calls verify_database_structure on such a store
InitVerify ==
    /\ db \in {d \in Stores : \A tn \in TableNames : d.rows[tn] # << >> => tn \in d.tables}
    /\ pending = NoTxn
    /\ writer = 0
    /\ th = [t \in Threads |-> IdleThread]
    /\ ncalls = 0 /\ nlocked = 0
    /\ hist = [t \in Threads |-> << >>]
    /\ loop = NoLoop
    /\ run = [workers |-> {1}, ops |-> "verify", track |-> FALSE,
              maxCalls |-> MaxVerifyCalls, maxLocked |-> MaxVerifyLocked,
              maxDrops |-> 0]

\* two workers that store, create and close their connections
InitClose ==
    /\ Fresh
    /\ loop = NoLoop
    /\ run = [workers |-> Threads, ops |-> "stall", track |-> FALSE,
              maxCalls |-> MaxCloseCalls, maxLocked |-> MaxCloseLocked,
              maxDrops |-> 0]

\* a step of the call thread t is running
Step(t) ==
    /\ UNCHANGED <<ncalls, nlocked, run, hist, loop>>
    /\ \/ CreateSelect(t) \/ CreateTable(t)
       \/ CreateInsert(t) \/ CreateCommit(t) \/ CreateBackoff(t)
       \/ StoreBegin(t) \/ StoreWrite(t)
       \/ StoreCommit(t) \/ StoreBackoff(t)

Next ==
    \E t \in Threads :
        CallStore(t) \/ CallCreate(t) \/ Step(t) \/ EngineLocked(t)

\* ------------------------------------------------------------ poll loop
\* The thread of run_data_collection (main.py).
LoopThread == 1
\* The thread of main() (main.py).
MainThread == 2

\* Friend records of the presence feed: what store_activity reads of them
\* and the last-update timestamp in epoch milliseconds.
F_fresh == [A_b1 EXCEPT !.ts = 200000]
F_again == [A_b2 EXCEPT !.ts = 200000]
F_edge == [A_und EXCEPT !.ts = 100000]
F_stale == [A_dot EXCEPT !.ts = 99999]
F_nots == A_nots
F_nouri == [A_nouri EXCEPT !.ts = 200000]
Friends == {F_fresh, F_again, F_edge, F_stale, F_nots, F_nouri}

\* time.time() at line 410, in milliseconds
Nows == {400000}

\* {"friends": [...]} of at most two records
Snapshots == {<< >>} \cup {<<f>> : f \in Friends}
                 \cup {<<f, g>> : f \in Friends, g \in Friends}

\* friend.get("timestamp", 0)
TimestampOf(friend) == IF friend.hasTs THEN friend.ts ELSE 0

IsActiveStrictly(friend, nowMs) ==
    nowMs - TimestampOf(friend) < active_threshold_seconds * 1000

\* current_time - timestamp / 1000 <= active_threshold_seconds, both sides
\* taken times 1000
IsActive(friend, nowMs) ==
    nowMs - TimestampOf(friend) <= active_threshold_seconds * 1000

keep_all_friends(friend_activity, nowMs) == friend_activity

RECURSIVE filter_active_friends(_, _)
filter_active_friends(friend_activity, nowMs) ==
    IF friend_activity = << >> THEN << >>
    ELSE LET rest == filter_active_friends(Tail(friend_activity), nowMs) IN
         IF IsActive(Head(friend_activity), nowMs)
         THEN <<Head(friend_activity)>> \o rest
         ELSE rest

\* ---- filter_active_friends, statement by statement
\* values of time.time() at line 410 that put a record on the edge of the
\* window and just past it
FilterNows == {400000, 400001}

\* no worker, no poll loop: only filter_active_friends runs
NoRun ==
    [workers |-> {}, ops |-> "none", track |-> FALSE,
     maxCalls |-> 0, maxLocked |-> 0, maxDrops |-> 0]

\* lines 410-411: current_time = time.time(); active_friends = []
InitFilter ==
    /\ Fresh
    /\ run = NoRun
    /\ \E data \in Snapshots, nowMs \in FilterNows :
          loop = [pc |-> "filtering", data |-> data, now |-> nowMs,
                  k |-> 0, active_friends |-> << >>]

\* lines 412-415: one iteration of the for statement
FilterIterate ==
    /\ loop.pc = "filtering"
    /\ loop.k < Len(loop.data)
    /\ LET friend == loop.data[loop.k + 1] IN
       loop' = [loop EXCEPT
                  !.k = @ + 1,
                  !.active_friends =
                      IF IsActive(friend, loop.now) THEN Append(@, friend) ELSE @]
    /\ UNCHANGED <<db, pending, writer, th, ncalls, nlocked, run, hist>>

\* line 417: return active_friends
FilterReturn ==
    /\ loop.pc = "filtering"
    /\ loop.k = Len(loop.data)
    /\ loop' = [loop EXCEPT !.pc = "filtered"]
    /\ UNCHANGED <<db, pending, writer, th, ncalls, nlocked, run, hist>>

NextFilter == FilterIterate \/ FilterReturn

FilterSpec == InitFilter /\ [][NextFilter]_vars

\* ---- run_collection_loop
TickEndsLoop(l, what) == [l EXCEPT !.failed = what, !.pc = "Dead"]

\* lines 404-406: except Exception: log, time.sleep(interval_seconds)
TickRaises(l, what) == [l EXCEPT !.failed = what, !.pc = "Sleeping"]

\* line 390, while True: the next tick begins (data and now are kept for
\* reference in runs that track what was fetched: the snapshot and the
\* time.time() of line 410 the batch was filtered from)
LoopIdle ==
    /\ loop.pc = "Idle"
    /\ loop' = [loop EXCEPT !.pc = "Fetching", !.batch = << >>, !.i = 0,
                            !.tries = 0, !.failed = "none",
                            !.data = << >>, !.now = 0]
    /\ UNCHANGED <<db, pending, writer, th, ncalls, nlocked, run, hist>>

\* line 392, fetch_friend_activity() under tenacity's retry: a
\* RequestException gives [], any other exception another attempt and after
\* the third a RetryError, a response gives filter_active_friends(data)
LoopFetch ==
    /\ loop.pc = "Fetching"
    /\ \/ loop' = [loop EXCEPT !.failed = "fetch", !.pc = "Sleeping"]
       \/ loop' = IF loop.tries + 1 < stop_after_attempt
                  THEN [loop EXCEPT !.tries = @ + 1]
                  ELSE TickRaises(loop, "retry")
       \/ \E data \in Snapshots, nowMs \in Nows :
             LET activities == filter_active_friends(data, nowMs) IN
             /\ ncalls + Len(activities) <= run.maxCalls
             /\ loop' = IF activities = << >>
                        THEN [loop EXCEPT !.pc = "Sleeping"]
                        ELSE [loop EXCEPT !.batch = activities, !.pc = "Ingesting",
                                          !.data = IF run.track THEN data ELSE << >>,
                                          !.now = IF run.track THEN nowMs ELSE 0]
    /\ UNCHANGED <<db, pending, writer, th, ncalls, nlocked, run, hist>>

\* lines 396-403: the for statement passes the next activity to
\* store_activity, or is exhausted and the loop sleeps.  (What
\* filter_active_friends lets through is a dict: it has answered get.)
LoopStore ==
    /\ loop.pc = "Ingesting"
    /\ th[LoopThread].pc = "idle"
    /\ IF loop.i < Len(loop.batch)
       THEN /\ loop' = [loop EXCEPT !.i = @ + 1, !.pc = "Calling"]
            /\ th' = [th EXCEPT ![LoopThread] =
                        [IdleThread EXCEPT !.conn = th[LoopThread].conn, !.opened = th[LoopThread].opened,
                            !.act = loop.batch[loop.i + 1], !.pc = "s_begin"]]
            /\ ncalls' = ncalls + 1
       ELSE /\ loop' = [loop EXCEPT !.pc = "Sleeping"]
            /\ UNCHANGED <<th, ncalls>>
    /\ UNCHANGED <<db, pending, writer, nlocked, run, hist>>

\* line 399: store_activity returns, or raises into line 404
LoopStoreReturns ==
    /\ loop.pc = "Calling"
    /\ th[LoopThread].pc = "idle"
    /\ loop' = IF th[LoopThread].result \in {"ok", "rejected"}
               THEN [loop EXCEPT !.pc = "Ingesting"]
               ELSE TickRaises(loop, "store")
    /\ UNCHANGED <<db, pending, writer, th, ncalls, nlocked, run, hist>>

\* lines 403 and 406: time.sleep(interval_seconds) returns
LoopSleep ==
    /\ loop.pc = "Sleeping"
    /\ loop' = [loop EXCEPT !.pc = "Idle"]
    /\ UNCHANGED <<db, pending, writer, th, ncalls, nlocked, run, hist>>

\* main.py, cleanup_connections(analyzer): close_db_connection() in the
\* thread that calls it
cleanup_connections(t) ==
    /\ th' = [th EXCEPT ![t] = close_db_connection(@)]
    /\ writer' = WriterAfterClose(t)
    /\ pending' = PendingAfterClose(t)

\* main.py: the main thread is interrupted and shuts down: it runs
\* cleanup_connections; nothing is passed to the loop, whose thread is a
\* daemon
RequestStop ==
    /\ loop.pc # "off"
    /\ ~loop.stop
    /\ loop' = [loop EXCEPT !.stop = TRUE]
    /\ cleanup_connections(MainThread)
    /\ UNCHANGED <<db, ncalls, nlocked, run, hist>>

\* the main thread has constructed the analyzer (init_database and
\* verify_database_structure have opened its connection) and started the
\* collection thread
InitLoop ==
    /\ db = EmptyDb /\ pending = NoTxn /\ writer = 0
    /\ ncalls = 0 /\ nlocked = 0
    /\ hist = [t \in Threads |-> << >>]
    /\ th = [t \in Threads |->
               IF t = MainThread THEN get_db_connection(IdleThread) ELSE IdleThread]
    /\ loop = [NoLoop EXCEPT !.pc = "Idle"]
    /\ run = [workers |-> {}, ops |-> "none", track |-> FALSE,
              maxCalls |-> MaxLoopCalls, maxLocked |-> MaxLoopLocked,
              maxDrops |-> 0]

\* the same, the snapshot of each tick kept for reference
InitTick ==
    /\ db = EmptyDb /\ pending = NoTxn /\ writer = 0
    /\ ncalls = 0 /\ nlocked = 0
    /\ hist = [t \in Threads |-> << >>]
    /\ th = [t \in Threads |->
               IF t = MainThread THEN get_db_connection(IdleThread) ELSE IdleThread]
    /\ loop = [NoLoop EXCEPT !.pc = "Idle"]
    /\ run = [workers |-> {}, ops |-> "none", track |-> TRUE,
              maxCalls |-> MaxTickCalls, maxLocked |-> MaxTickLocked,
              maxDrops |-> 0]

\* the steps of the collection thread
LoopRuns ==
    \/ LoopIdle \/ LoopFetch \/ LoopStore \/ LoopStoreReturns \/ LoopSleep
    \/ Step(LoopThread)
    \/ EngineLocked(LoopThread)

NextLoop == LoopRuns \/ RequestStop

\* The collection thread is scheduled again and again, its sleeps and its
\* requests return.
LoopSpec == InitLoop /\ [][NextLoop]_vars /\ WF_vars(LoopRuns)

TickSpec == InitTick /\ [][NextLoop]_vars

\* a step of the verify_database_structure call thread t is running
VerifyStep(t) ==
    /\ UNCHANGED <<ncalls, nlocked, run, hist, loop>>
    /\ \/ VerifyBegin(t) \/ VerifyInit(t) \/ VerifyLoop(t)
       \/ VerifyExit(t) \/ VerifyRaise(t)

NextRepair ==
    \/ Next
    \/ \E t \in Threads : CallVerify(t) \/ VerifyStep(t)
    \/ DropStream

\* only verify_database_structure is called, again and again
NextVerify ==
    \E t \in Threads :
        CallVerify(t) \/ VerifyStep(t) \/ Step(t) \/ EngineLocked(t)

NextClose ==
    \/ Next
    \/ \E t \in Threads : CallClose(t) \/ CloseReturns(t)

NextQuery ==
    \/ Next
    \/ \E t \in Threads : get_user_activity(t)

Spec == Init /\ [][Next]_vars

QuerySpec == InitQuery /\ [][NextQuery]_vars

StallSpec == InitStall /\ [][Next]_vars

VerifySpec == InitVerify /\ [][NextVerify]_vars

CloseSpec == InitClose /\ [][NextClose]_vars

RangeSpec == InitRange /\ [][NextQuery]_vars

RepairSpec == InitRepair /\ [][NextRepair]_vars

SeqSpec == InitSeq /\ [][Next]_vars

\* ------------------------------------------------------------ claims
StorePcs  == {"s_begin", "s_write", "s_commit", "s_backoff"}
CreatePcs == {"c_select", "c_create", "c_insert", "c_commit", "c_backoff"}

\* the rows of a dimension table that carry one identifier
RowsOf(rows, uri) == {r \in rows : r.uri = uri}

\* the committed stream of a listener
StreamOf(d, user_uri) == d.rows[get_user_table_name(user_uri)]

\* thread t ends its store_activity call in this step with result res
StoreEndsWith(t, res) ==
    /\ th[t].pc \in StorePcs \/ (th[t].pc \in CreatePcs /\ th[t].caller = "store")
    /\ th'[t].pc = "idle"
    /\ th'[t].result = res

\* C1: every store_activity call that succeeds adds exactly one entry to
\* the stream of its listener and leaves exactly one users row for the
\* listener and exactly one tracks row for the track, whatever was stored
\* before (so two events of one listener and track leave one row in each
\* dimension table and two stream entries).
C1_UpsertAndAppend ==
    [][\A t \in Threads :
          StoreEndsWith(t, "ok") =>
             LET a == th[t].act IN
             /\ Len(StreamOf(db', a.uri)) = Len(StreamOf(db, a.uri)) + 1
             /\ Cardinality(RowsOf(db'.users, a.uri)) = 1
             /\ Cardinality(RowsOf(db'.tracks, a.turi)) = 1]_vars

\* two events of one listener and one track are stored: one row each, two entries
C1_Witness ==
    /\ Len(StreamOf(db, U_b)) = 2
    /\ db.users = {[uri |-> U_b, name |-> "n2"]}
    /\ db.tracks = {[uri |-> "T1", name |-> "Song B"]}

\* C2: a store_activity call for a storable candidate ends in success
\* when every operation the engine refused with "database is locked" was
\* refused on fewer than max_attempts attempts, and ends by raising the
\* locked error otherwise: it ends in no other way.
C2_RetryThenSuccessOrLocked ==
    [][\A t \in Threads :
          (/\ th[t].pc \in StorePcs
           /\ Storable(th[t].act)
           /\ th'[t].pc = "idle")
          => th'[t].result \in {"ok", "locked"}]_vars

\* C3: once every worker has finished, the workers having stored for
\* listeners of their own, each listener's stream holds exactly the events
\* passed to store_activity for that listener.
Submitted(user_uri) ==
    {<<t, i>> \in Threads \X (1..MaxSeqCalls + MaxCalls) :
        i <= Len(hist[t]) /\ hist[t][i].uri = user_uri}

OwnListeners ==
    \A t1, t2 \in Threads : \A i \in 1..Len(hist[t1]) : \A j \in 1..Len(hist[t2]) :
        t1 # t2 => hist[t1][i].uri # hist[t2][j].uri

C3_NoLossNoLeak ==
    (run.track /\ OwnListeners /\ \A t \in Threads : th[t].pc = "idle")
    => \A u \in Listeners :
          /\ Len(StreamOf(db, u)) = Cardinality(Submitted(u))
          /\ \A k \in 1..Len(StreamOf(db, u)) :
                \E s \in Submitted(u) :
                    /\ hist[s[1]][s[2]].ts = StreamOf(db, u)[k].timestamp
                    /\ hist[s[1]][s[2]].turi = StreamOf(db, u)[k].track_uri

\* a step of the create_user_table call thread t is running
CreateStepOf(t) == th[t].pc \in CreatePcs /\ th'[t] # th[t]

\* no step of a create_user_table call creates a table that exists already
\* or touches the entries of an existing stream
CreatedAtMostOnce ==
    \A tn \in db.tables : tn \in db'.tables /\ db'.rows[tn] = db.rows[tn]

\* C4: create_user_table creates the backing table at most once, and a
\* call for a listener that some call has registered already leaves the
\* registry and every stream unchanged, also when the calls are concurrent.
C4_CreateIsIdempotent ==
    [][\A t \in Threads :
         CreateStepOf(t) =>
           /\ CreatedAtMostOnce
           /\ (\E r \in db.reg : r.user_uri = th[t].uri) =>
                 db'.reg = db.reg /\ db'.rows = db.rows]_vars

\* C5: the registry holds at most one entry per listener and every entry
\* names a stream table that exists, in the committed database and in the
\* image of an open transaction.
RegistrySound(d) ==
    /\ \A r1, r2 \in d.reg : r1.user_uri = r2.user_uri => r1 = r2
    /\ \A r \in d.reg : r.table_name \in d.tables

C5_RegistryInvariant ==
    /\ RegistrySound(db)
    /\ writer # 0 => RegistrySound(pending)

\* two entries are registered, one of them rewritten by a concurrent
\* call, after the engine has refused a statement
C5_Witness ==
    /\ Cardinality(db.reg) = 2
    /\ nlocked > 0
    /\ \E r \in db.reg : r.created_at = 2

\* C6: store_activity rejects every candidate whose listener identifier is
\* empty or has no ':' and every candidate whose track identifier is empty
\* or missing, and a rejected candidate changes nothing.
C6_RejectsMalformed ==
    [][\A t \in Threads :
          (/\ th[t].pc = "s_begin"
           /\ th'[t] # th[t]
           /\ \/ ~th[t].act.hasUser
              \/ th[t].act.uri = << >>
              \/ ~Contains(th[t].act.uri, ":")
              \/ ~th[t].act.hasTrack
              \/ th[t].act.turi = "")
          => /\ th'[t].pc = "idle"
             /\ th'[t].result = "rejected"
             /\ db' = db /\ pending' = pending /\ writer' = writer]_vars

\* C7: in run_collection_loop, while candidates of the tick have not been
\* passed to store_activity yet, the loop does not go to sleep, whatever
\* store_activity did with the candidates before them.
C7_TickNotAborted ==
    [][(loop.pc \in {"Ingesting", "Calling"} /\ loop.i < Len(loop.batch))
          => loop'.pc # "Sleeping"]_vars

\* C8: a failure inside a tick (a failed fetch, an error raised by
\* store_activity) leaves run_collection_loop sleeping or about to begin
\* the next tick, and a later fetch always follows.
C8_LoopSurvivesFailures ==
    /\ [](loop.failed # "none" => loop.pc \in {"Sleeping", "Idle"})
    /\ (loop.failed # "none") ~> (loop.pc = "Fetching")

\* store_activity has raised on the closed connection and the loop sleeps
C8_Witness ==
    /\ loop.failed = "store" /\ loop.pc = "Sleeping"
    /\ th[LoopThread].result = "closed"

\* C9: once a stop has been requested, the loop at its Idle transition
\* does not go on to another fetch.
C9_StopHonoured ==
    [][(loop.stop /\ loop.pc = "Idle") => loop'.pc # "Fetching"]_vars

\* C12: a thread never has more than one open connection: a connection is
\* opened only by a thread that has none, the thread's cached connection is
\* open exactly when it has one, the write lock is held by a thread with
\* an open connection, and a step of one thread leaves the connections of
\* the others alone.
C12_OneSessionPerThread ==
    [][\A t \in Threads :
         /\ th'[t].opened <= 1
         /\ th'[t].conn <=> th'[t].opened = 1
         /\ th'[t].opened > th[t].opened => ~th[t].conn
         /\ writer' = t => th'[t].conn
         /\ th'[t] # th[t] =>
               \A u \in Threads \ {t} : th'[u] = th[u]]_vars

\* both workers hold a connection, one of them a connection it opened
\* again after the retry wrapper had closed its first one
C12_Witness ==
    /\ \A t \in Threads : th[t].conn /\ th[t].opened = 1
    /\ \E t \in Threads : th[t].pc \in {"c_create", "c_insert"} /\ th[t].catt > 0

\* C13: once the shutdown path has run, no thread holds an open
\* connection.
C13_CloseReleasesAll ==
    loop.stop => \A t \in Threads : ~th[t].conn

\* C14: when a statement of store_activity fails with an error that is not
\* "database is locked" (the connection is closed, the timestamp is
\* missing), the call ends at once with that error: no further attempt, and
\* the thread keeps the connection it had.
C14_OtherErrorsNotRetried ==
    [][\A t \in Threads :
         ( /\ th[t].pc = "s_write"
           /\ th'[t] # th[t]
           /\ nlocked' = nlocked
           /\ ~th[t].sconn \/ ~th[t].act.hasTs )
         => /\ th'[t].pc = "idle"
            /\ th'[t].result = IF ~th[t].sconn THEN "closed" ELSE "integrity"
            /\ th'[t].conn = th[t].conn
            /\ th'[t].opened = th[t].opened]_vars

\* store_activity has ended with the integrity error of a missing
\* timestamp on its first attempt; the connection is still open, with the
\* transaction the failed statement left
C14_Witness ==
    \E t \in Threads :
       /\ th[t].pc = "idle" /\ th[t].result = "integrity"
       /\ th[t].conn /\ writer = t /\ nlocked = 0

\* C15: a listener whose create_user_table call is under way is never
\* given the table that the registry records for a listener with another
\* local component.
C15_HandlesDoNotCollide ==
    \A t \in Threads : \A r \in db.reg :
       ( /\ th[t].pc \in CreatePcs
         /\ LastComponent(th[t].uri, ":") # LastComponent(r.user_uri, ":") )
       => get_user_table_name(th[t].uri) # r.table_name

\* C16: create_user_table ends with the derivation error for a listener
\* whose sanitized local component is empty or made of '_' only.
C16_DerivationFails ==
    [][\A t \in Threads :
         ( /\ th[t].pc = "c_select"
           /\ th'[t] # th[t]
           /\ StripUnderscores(Sanitize(LastComponent(th[t].uri, ":"))) = << >> )
         => th'[t].pc = "idle" /\ th'[t].result = "value"]_vars

\* the storable candidates a worker has passed to store_activity for a
\* listener, as positions in its history
StoredFor(t, user_uri) ==
    {i \in 1..Len(hist[t]) : hist[t][i].uri = user_uri}

\* C17: when no call has met a lock (every store_activity call so far has
\* succeeded), get_user_activity(L) returns one record per event stored
\* for L, each with the timestamp of such an event and the stored name of
\* its track.
C17_RoundTrip ==
    \A t \in Threads :
       (th[t].pc = "idle" /\ th[t].result = "queried" /\ nlocked = 0) =>
          LET L == th[t].got.user_uri
              frame == th[t].got.frame
          IN /\ Len(frame) = Cardinality(StoredFor(t, L))
             /\ \A i \in 1..Len(frame) :
                   \E j \in StoredFor(t, L) :
                      /\ frame[i].timestamp = hist[t][j].ts
                      /\ [uri |-> hist[t][j].turi, name |-> frame[i].track_name]
                            \in db.tracks

\* C18: a call never reaches a statement with a connection that has been
\* closed: store_activity comes to its statements, and
\* verify_database_structure to its next look-up and to the commit that
\* ends it, with the connection they use still open.
C18_NoUseOfClosedSession ==
    \A t \in Threads :
       /\ th[t].pc = "s_write" => th[t].sconn
       /\ (th[t].pc = "v_loop" /\ th[t].vtodo # {}) => th[t].vconn
       /\ th[t].pc = "v_exit" => th[t].vconn

\* C19: no step of a store_activity call changes a stream, except the step
\* that ends the call successfully, which adds one entry to the listener's
\* stream: whatever attempts failed before, a call that succeeds has added
\* exactly one entry and a call that fails has added none.
C19_AppendsAtMostOnce ==
    [][\A t \in Threads :
         (th[t].act # NoActivity /\ th'[t] # th[t]) =>
            \/ db'.rows = db.rows
            \/ /\ th'[t].pc = "idle" /\ th'[t].result = "ok"
               /\ LET tn == get_user_table_name(th[t].act.uri) IN
                  /\ Len(db'.rows[tn]) = Len(db.rows[tn]) + 1
                  /\ \A other \in TableNames \ {tn} :
                        db'.rows[other] = db.rows[other]]_vars

\* an attempt that follows a locked one is about to commit its one entry
C19_Witness ==
    \E t \in Threads :
       /\ th[t].pc = "s_commit" /\ th[t].att > 0 /\ writer = t
       /\ Len(StreamOf(pending, th[t].act.uri))
             = Len(StreamOf(db, th[t].act.uri)) + 1

\* C20: within one store_activity call the CREATE TABLE of the stream is
\* attempted at most max_attempts times, and so is the append of the event.
C20_AtMostMaxAttempts ==
    \A t \in Threads :
       th[t].act # NoActivity =>
          /\ th[t].ncreate <= max_attempts
          /\ th[t].pc \in {"s_write", "s_commit"} => th[t].att + 1 <= max_attempts

\* the sum of delay * 2^i for i in 0..max_attempts
StallBound == delay * (2^(max_attempts + 1) - 1)

\* C21: the sleep after the i-th locked attempt of a wrapper is
\* delay * 2^i seconds, and a single create_user_table or store_activity
\* call never sleeps longer in all than the sum of delay * 2^i for i in
\* 0..max_attempts.
C21_BackoffBounded ==
    [][\A t \in Threads :
         /\ th[t].pc = "c_backoff" /\ th'[t] # th[t] /\ th'[t].pc # "idle"
               => th'[t].slept = th[t].slept + delay * Pow2(th[t].catt)
         /\ th[t].pc = "s_backoff" /\ th'[t] # th[t] /\ th'[t].pc # "idle"
               => th'[t].slept = th[t].slept + delay * Pow2(th[t].att)
         /\ th'[t].slept <= StallBound]_vars

\* C22: whenever no call is in progress, every stream table that exists has
\* an entry in the registry, also after a create attempt whose CREATE TABLE
\* went through, whose registry insert was refused on a lock, and which was
\* then tried again.
C22_EveryStreamRegistered ==
    (\A t \in Threads : th[t].pc = "idle")
        => \A tn \in db.tables : \E r \in db.reg : r.table_name = tn

\* C23: the users and tracks rows change only in the commit that ends a
\* store_activity call successfully, and then only by the rows of that
\* call's candidate: what a call that ended with an error wrote is neither
\* committed when it fails nor by a later call of the same worker.
C23_FailedStoreLeavesNothing ==
    [][(db'.users # db.users \/ db'.tracks # db.tracks)
          => \E t \in Threads :
                /\ th[t].pc = "s_commit"
                /\ th'[t].result = "ok"
                /\ db'.users = StoredDimensions(db, th[t].act).users
                /\ db'.tracks = StoredDimensions(db, th[t].act).tracks]_vars

\* C24: whenever no call is in progress, every registry entry has a users
\* row with the same identifier, also when a store_activity call failed
\* after it had created the stream.  Only runs whose workers call nothing
\* but store_activity are looked at.
C24_RegisteredListenerIsUser ==
    (run.ops = "failing" /\ \A t \in Threads : th[t].pc = "idle")
        => \A r \in db.reg : \E u \in db.users : u.uri = r.user_uri

\* C25: a step changes a committed stream only by appending one event to
\* it: the events it held stay as they were and in their order, and the
\* new event's sequence number is greater than that of every event the
\* stream held, whatever the timestamps are.
C25_AppendOnlyOrdered ==
    [][\A tn \in TableNames :
          LET old == db.rows[tn]
              new == db'.rows[tn]
          IN  \/ new = old
              \/ /\ Len(new) = Len(old) + 1
                 /\ SubSeq(new, 1, Len(old)) = old
                 /\ \A i \in 1..Len(old) : old[i].id < new[Len(new)].id]_vars

\* a stream holds two events with one timestamp, stored by calls of which
\* one was refused by the engine before
C25_Witness ==
    /\ nlocked > 0
    /\ \E tn \in TableNames :
          /\ Len(db.rows[tn]) >= 2
          /\ db.rows[tn][1].timestamp = db.rows[tn][2].timestamp
          /\ db.rows[tn][1].id < db.rows[tn][2].id

\* what the claim selects: now - timestamp/1000 <= 300, a missing timestamp
\* counting as 0 (times in milliseconds)
InWindow(friend) ==
    (IF friend.hasTs THEN loop.now - friend.ts ELSE loop.now) <= 300000

\* C11: filter_active_friends returns the records of the snapshot that lie
\* within the window, boundary included, in input order and with their
\* duplicates; a record without timestamp counts as timestamp 0.
C11_FilterSelectsWindow ==
    loop.pc = "filtered" =>
       /\ loop.active_friends = SelectSeq(loop.data, InWindow)
       /\ filter_active_friends(loop.data, loop.now) = SelectSeq(loop.data, InWindow)

\* at T = 400 s a record on the edge (100 s) is kept, twice when it comes
\* twice, and at T = 400.001 s it is dropped while one at 200 s is kept
C11_Witness ==
    /\ loop.pc = "filtered"
    /\ \/ /\ loop.now = 400000
          /\ loop.data = <<F_edge, F_edge>>
          /\ loop.active_friends = <<F_edge, F_edge>>
       \/ /\ loop.now = 400001
          /\ loop.data = <<F_edge, F_fresh>>
          /\ loop.active_friends = <<F_fresh>>

\* C10: when verify_database_structure returns normally, every registry
\* entry it fetched at its start still stands with the same handle and
\* names an existing stream, and every stream it found missing is there
\* again, empty.
C10_VerifyRepairs ==
    [][\A t \in Threads :
         (th[t].pc = "v_exit" /\ th'[t].pc = "idle" /\ th'[t].result = "ok") =>
            \A r \in th[t].vstart :
               /\ r.table_name \in db'.tables
               /\ \E q \in db'.reg : /\ q.user_uri = r.user_uri
                                      /\ q.table_name = r.table_name
               /\ \A q \in db'.reg : q.user_uri = r.user_uri =>
                                         q.table_name = r.table_name
               /\ r.table_name \in th[t].vmissing =>
                     db'.rows[r.table_name] = << >>]_vars

\* verify_database_structure is about to return normally after it found a
\* stream missing and had it created again
C10_Witness ==
    /\ th[1].pc = "v_exit" /\ th[1].vconn
    /\ th[1].vmissing # {}
    /\ \A tn \in th[1].vmissing : tn \in View(1).tables

\* C26: run_collection_loop goes from one fetch to the next through
\* exactly one sleep: a tick begins with the fetch, the fetch is followed by
\* the ingestion of what the filter selected or by the sleep, ingestion by
\* the sleep, and the sleep by the next tick, whether the tick succeeded,
\* found nothing or failed.  What is passed to store_activity is a record
\* of the tick's snapshot that lies within the window.
C26_TickOrder ==
    [][/\ loop.pc = "Idle" => loop'.pc \in {"Idle", "Fetching"}
       /\ loop.pc = "Fetching" => loop'.pc \in {"Fetching", "Ingesting", "Sleeping"}
       /\ loop.pc = "Ingesting" => loop'.pc \in {"Ingesting", "Calling", "Sleeping"}
       /\ loop.pc = "Calling" => loop'.pc \in {"Calling", "Ingesting", "Sleeping"}
       /\ loop.pc = "Sleeping" => loop'.pc \in {"Sleeping", "Idle"}
       /\ (loop.pc = "Ingesting" /\ loop'.pc = "Calling")
             => \E k \in 1..Len(loop.data) :
                   /\ th'[LoopThread].act = loop.data[k]
                   /\ InWindow(loop.data[k])]_vars

\* a tick whose snapshot held a record outside the window passes the other
\* record to store_activity, after an earlier tick that stored a record and
\* met a refusal of the engine
C26_Witness ==
    /\ loop.pc = "Calling"
    /\ Len(loop.data) = 2 /\ Len(loop.batch) = 1
    /\ ncalls = 2 /\ nlocked > 0
    /\ th[LoopThread].pc = "s_begin"
    /\ th[LoopThread].act = loop.batch[1]

\* user_uri and table_name of the registry rows
Handles(reg) == {[user_uri |-> r.user_uri, table_name |-> r.table_name] : r \in reg}

\* C27: when verify_database_structure returns normally, users, tracks and
\* user_tables all exist, whichever of them were missing; and no step of a
\* call made right after a call that returned normally changes the set of
\* tables, the handles of the registry or any stream.
C27_VerifyRerunChangesNothing ==
    [][\A t \in Threads :
          /\ (th[t].pc = "v_exit" /\ th'[t].pc = "idle" /\ th'[t].result = "ok")
                => db'.core = CoreTables
          /\ (th[t].prev = "ok" /\ th[t].pc # "idle")
                => /\ db'.core = db.core
                   /\ db'.tables = db.tables
                   /\ Handles(db'.reg) = Handles(db.reg)
                   /\ db'.rows = db.rows]_vars

\* the second call is about to return, after a first call that recreated
\* tracks and a stream
C27_Witness ==
    /\ th[1].prev = "ok" /\ th[1].pc = "v_exit" /\ th[1].vconn
    /\ db.core = CoreTables
    /\ db.tracks = {} /\ \E tn \in db.tables : db.rows[tn] # << >>
    /\ \E r \in db.reg : r.created_at = 2 /\ db.rows[r.table_name] = << >>

\* thread t is inside a verify_database_structure call
InVerify(t) ==
    \/ th[t].pc \in {"v_begin", "v_init", "v_loop", "v_exit", "v_raise"}
    \/ th[t].pc \in CreatePcs /\ th[t].caller = "verify"

\* C28: no step of a verify_database_structure call changes a row of users
\* or tracks or an event of a stream table that exists, and the registry
\* entries such a step changes or adds are those of listeners whose stream
\* table the call found missing.
C28_VerifyLeavesIntactData ==
    [][\A t \in Threads :
          (InVerify(t) /\ th'[t] # th[t]) =>
             /\ db'.users = db.users
             /\ db'.tracks = db.tracks
             /\ \A tn \in db.tables : db'.rows[tn] = db.rows[tn]
             /\ \A q \in (db'.reg \ db.reg) \cup (db.reg \ db'.reg) :
                   q.table_name \in th[t].vmissing]_vars

\* C29: a close_db_connection call of a thread without a connection
\* changes nothing; a call of a thread with one closes that connection and
\* forgets it; either way the committed data, the other threads and the
\* transactions they hold are left as they are, and the next connection
\* the thread gets is a newly opened one.
C29_CloseOwnSessionOnly ==
    [][\A t \in Threads :
          /\ (th[t].pc = "x_close" /\ th'[t].pc = "idle") =>
                /\ ~th'[t].conn
                /\ th'[t].opened = IF th[t].conn THEN th[t].opened - 1
                                   ELSE th[t].opened
                /\ ~th[t].conn => (writer' = writer /\ pending' = pending)
                /\ db' = db
                /\ \A u \in Threads \ {t} :
                      /\ th'[u] = th[u]
                      /\ writer = u => (writer' = u /\ pending' = pending)
          /\ (~th[t].conn /\ th'[t].conn) => th'[t].opened = th[t].opened + 1]_vars

\* thread 2 has closed the connection it had stored with, while thread 1
\* holds a transaction on its own connection
C29_Witness ==
    /\ th[2].pc = "idle" /\ th[2].result = "ok"
    /\ ~th[2].conn /\ th[2].opened = 0
    /\ db.users # {}
    /\ th[1].conn /\ writer = 1 /\ th[1].pc = "s_commit"

\* timestamps of the frame get_user_activity returned
FrameTimestamps(frame) == [i \in 1..Len(frame) |-> frame[i].timestamp]

\* C30: get_user_activity(L, from, to) returns the events of L's stream
\* whose timestamp is at least from, if from is supplied, and at most to,
\* if to is supplied, 0 included, by descending timestamp.
C30_RangeQuery ==
    \A t \in Threads :
       (th[t].pc = "idle" /\ th[t].result = "queried") =>
          LET g == th[t].got
              InRange(e) ==
                 /\ g.start_time.given => g.start_time.value <= e.timestamp
                 /\ g.end_time.given => e.timestamp <= g.end_time.value
              wanted == OrderByTimestampDesc(SelectSeq(StreamOf(db, g.user_uri), InRange))
          IN FrameTimestamps(g.frame) = FrameTimestamps(wanted)

============================================================================
